---- MODULE Spec2Model ----
(***************************************************************************)
(* TrenchyBet points listener: the polling listener of                     *)
(* src/unnamed/part_000.  A timer starts a scanning pass every 5 seconds;  *)
(* a pass is an async callback, so it gives up control at every await and  *)
(* several passes may be in flight.  One action of this model is the       *)
(* answer to one awaited call together with the synchronous code that runs *)
(* until the pass issues its next awaited call.  The subscription listener *)
(* of src/index.js (two onLogs callbacks, PushSpec) is modelled the same   *)
(* way, and SignalSpec adds the signal handlers to the polling listener.   *)
(*                                                                         *)
(* Amounts are kept as the raw uint256 of the event (micro-USDC); the      *)
(* JavaScript number Number(formatUnits(amount, 6)) is named by that raw   *)
(* value, which determines it for every amount below 2^53.                 *)
(***************************************************************************)
EXTENDS Integers, Sequences, FiniteSets, TLC

VARIABLES
    chain,              \* the BetPlaced and WinningsClaimed logs of each block
    lastProcessedBlock, \* the cursor of startListener
    users,              \* table users: wallet_address -> total_points
    ledger,             \* table points_ledger, in id order
    pass,               \* the timer callbacks: position and locals of each
    faults,             \* number of awaited calls that have failed so far
    ticks,              \* number of timer ticks so far
    doneWindows,        \* windows <<from, from of the wins, to>> run to their end
    push                \* src/index.js: the onLogs callbacks of the two subscriptions

vars == <<chain, lastProcessedBlock, users, ledger, pass, faults, ticks, doneWindows, push>>

\* ---------------------------------------------------------------- bounds
MaxTicks == 2
MaxFaults == 1
MaxMarket == 2

\* ------------------------------------------------------------- constants
POINTS_PER_DOLLAR == 10
WIN_MULTIPLIER == 5
USDC_DECIMALS == 6
NULL == -1

\* Two callbacks of the timer may be in flight at once.
Passes == {"t1", "t2"}

RECURSIVE Pow10(_)
Pow10(n) == IF n = 0 THEN 1 ELSE 10 * Pow10(n - 1)

\* wallet.toLowerCase()
Lower(w) ==
    CASE w = "0xAA" -> "0xaa"
      [] w = "0xBB" -> "0xbb"
      [] OTHER -> w

LowerWallets == {"0xaa", "0xbb"}

\* ------------------------------------------------------------ the chain
BetLog(tx, m, u, a) ==
    [transactionHash |-> tx, args |-> [marketId |-> m, user |-> u, amount |-> a]]

WinLog(tx, m, u, a) ==
    [transactionHash |-> tx, args |-> [marketId |-> m, user |-> u, amount |-> a]]

\* The logs of the concurrency runs, block by block after the block the
\* listener started at.  Block 1: a 12.50 USDC bet and its win; a win on
\* market 0 whose bet is in the next block; a zero payout on a market that
\* has a bet; a bet without a user and a win without args.
\* Block 2: the 0.94 USDC bet on market 0.
Chain ==
    << [bets |-> << BetLog("b1", 1, "0xAA", 12500000),
                    [transactionHash |-> "bx",
                     args |-> [marketId |-> 1, amount |-> 5000000]] >>,
        wins |-> << WinLog("w1", 1, "0xAA", 25000000),
                    WinLog("w2", 0, "0xBB", 1880000),
                    [transactionHash |-> "wx"],
                    WinLog("w3", 1, "0xAA", 0) >>],
       [bets |-> << BetLog("b2", 0, "0xBB", 940000) >>,
        wins |-> << >>] >>

\* The logs of the input runs: one bet and one win, over the wallets (as the
\* event carries them, checksummed or not), markets, amounts and payouts
\* below, in the same block, the win a block before the bet, or a block
\* after it.
BetWallets == {"0xAA", "0xBB"}
WinWallets == {"0xAA", "0xaa"}
Markets == 0..MaxMarket
Amounts == {0, 1, 940000, 12500000}
Payouts == {0, 25000000}

BetInputs == {BetLog("b1", m, u, a) : m \in Markets, u \in BetWallets, a \in Amounts}
WinInputs == {WinLog("w1", m, u, a) : m \in Markets, u \in WinWallets, a \in Payouts}

InputChains ==
    UNION {{ << [bets |-> << b >>, wins |-> << w >>] >>,
             << [bets |-> << >>, wins |-> << w >>], [bets |-> << b >>, wins |-> << >>] >>,
             << [bets |-> << b >>, wins |-> << >>], [bets |-> << >>, wins |-> << w >>] >> }
           : b \in BetInputs, w \in WinInputs}

\* The chain heads getBlockNumber may answer.
Heads == 0..Len(chain)

\* getLogs(BetPlaced, fromBlock, toBlock)
RECURSIVE BetLogsIn(_, _)
BetLogsIn(from, to) ==
    IF from > to THEN << >> ELSE BetLogsIn(from, to - 1) \o chain[to].bets

\* getLogs(WinningsClaimed, fromBlock, toBlock)
RECURSIVE WinLogsIn(_, _)
WinLogsIn(from, to) ==
    IF from > to THEN << >> ELSE WinLogsIn(from, to - 1) \o chain[to].wins

\* --------------------------------------------------------- points policy
\* !log.args || !log.args.user || !log.args.amount  (0n is falsy)
Invalid(log) ==
    \/ "args" \notin DOMAIN log
    \/ "user" \notin DOMAIN log.args
    \/ "amount" \notin DOMAIN log.args
    \/ log.args.amount = 0

\* Mutant of BasePoints: the amount is cut to whole USDC before the product.
BasePointsWholeUsdc(raw) == (raw \div Pow10(USDC_DECIMALS)) * POINTS_PER_DOLLAR

\* Math.floor(usdcAmount * POINTS_PER_DOLLAR).  The double product of a
\* decimal with at most 6 fraction digits and 10 has the exact floor (checked
\* exhaustively for every amount of the chain above and all below 3 USDC).
BasePoints(raw) == (raw * POINTS_PER_DOLLAR) \div Pow10(USDC_DECIMALS)

\* The amounts below 3 USDC for which the double originalBet * 10 * 5,
\* evaluated left to right, lies below the exact product (an integer):
\* 0.94 * 10 is 9.399999999999999, times 5 is 46.99999999999999.
RoundsBelow == {940000, 1140000, 1180000, 1660000, 1880000,
                2260000, 2280000, 2360000, 2380000}

\* Math.floor(originalBet * POINTS_PER_DOLLAR * WIN_MULTIPLIER)
WinBonus(raw) ==
    LET exact == (raw * POINTS_PER_DOLLAR * WIN_MULTIPLIER) \div Pow10(USDC_DECIMALS)
    IN  IF raw \in RoundsBelow THEN exact - 1 ELSE exact

\* metadata.marketId || null
MarketIdOrNull(m) == IF m = 0 THEN NULL ELSE m

\* The row awardPoints inserts into points_ledger.
LedgerRow(wallet, points, source, metadata) ==
    [wallet_address |-> Lower(wallet), points_earned |-> points,
     source |-> source, market_id |-> MarketIdOrNull(metadata.marketId),
     metadata |-> metadata]

\* ------------------------------------------------------------ the store
Total(w) == IF w \in DOMAIN users THEN users[w] ELSE 0

RECURSIVE SumPoints(_, _)
SumPoints(rows, w) ==
    IF rows = << >> THEN 0
    ELSE (IF Head(rows).wallet_address = w THEN Head(rows).points_earned ELSE 0)
         + SumPoints(Tail(rows), w)

LedgerSum(w) == SumPoints(ledger, w)

\* Mutant of BetRecordId: the lookup does not filter on market_id.
BetRecordIdAnyMarket(wallet, m) ==
    LET hits == {i \in 1..Len(ledger) :
                    /\ ledger[i].wallet_address = Lower(wallet)
                    /\ ledger[i].source = "bet_volume"}
    IN  IF hits = {} THEN 0 ELSE CHOOSE i \in hits : \A j \in hits : j <= i

\* select metadata ... eq wallet_address, market_id, source='bet_volume'
\* order by id desc limit 1: the id of the row, 0 when there is none.
BetRecordId(wallet, m) ==
    LET hits == {i \in 1..Len(ledger) :
                    /\ ledger[i].wallet_address = Lower(wallet)
                    /\ ledger[i].market_id = m
                    /\ ledger[i].source = "bet_volume"}
    IN  IF hits = {} THEN 0 ELSE CHOOSE i \in hits : \A j \in hits : j <= i

\* ------------------------------------------------------------- a pass
NoAward == [wallet |-> "", points |-> 0, source |-> "", metadata |-> [marketId |-> 0]]

\* A timer callback that is not running; failed and advanced tell how its
\* last run ended (a failed call in it, the cursor assigned by it), and
\* handled lists the logs whose handler has returned in the run.
Idle(f, a) ==
    [pc |-> "idle", from |-> 0, wfrom |-> 0, to |-> 0, phase |-> "", idx |-> 0,
     award |-> NoAward, user |-> 0, handled |-> << >>,
     failed |-> f, advanced |-> a]

\* Mutant of SkipsWin: only a missing field is skipped, a 0n payout is not.
SkipsWinMissingOnly(log) ==
    \/ "args" \notin DOMAIN log
    \/ "user" \notin DOMAIN log.args
    \/ "amount" \notin DOMAIN log.args

\* handleWinningsClaimed returns before its lookup: invalid, or payout === 0n
SkipsWin(log) == Invalid(log) \/ log.args.amount = 0

\* The handler of a log has returned.
Handled(r, kind, log) ==
    [r EXCEPT !.handled = Append(@, [kind |-> kind, tx |-> log.transactionHash])]

\* handleBetPlaced up to the first await of awardPoints.
StartBet(r, i) ==
    LET log == BetLogsIn(r.from, r.to)[i]
    IN  [r EXCEPT !.pc = "euSelect", !.phase = "bet", !.idx = i,
                  !.award = [wallet |-> log.args.user,
                             points |-> BasePoints(log.args.amount),
                             source |-> "bet_volume",
                             metadata |-> [marketId |-> log.args.marketId,
                                           betAmount |-> log.args.amount,
                                           txHash |-> log.transactionHash]]]

\* handleWinningsClaimed up to its await of the ledger lookup.
StartWin(r, i) ==
    [r EXCEPT !.pc = "winLookup", !.phase = "win", !.idx = i, !.award = NoAward]

\* for (const log of winLogs), from index i on; "end" is the assignment
\* lastProcessedBlock = currentBlock.
RECURSIVE ForWins(_, _)
ForWins(r, i) ==
    LET logs == WinLogsIn(r.wfrom, r.to)
    IN  IF i > Len(logs) THEN [r EXCEPT !.pc = "end"]
        ELSE IF SkipsWin(logs[i]) THEN ForWins(Handled(r, "win", logs[i]), i + 1)
        ELSE StartWin(r, i)

\* Mutant of ForBets: the loop over the bets is not run before the wins.
ForBetsSkipped(r, i) == ForWins(r, 1)

\* Mutant of ForBets: an invalid log ends the loops, the rest of the window
\* is not handled.
ForBetsStopAtInvalid(r, i) ==
    LET logs == BetLogsIn(r.from, r.to)
    IN  IF i > Len(logs) THEN ForWins(r, 1)
        ELSE IF Invalid(logs[i]) THEN [Handled(r, "bet", logs[i]) EXCEPT !.pc = "end"]
        ELSE StartBet(r, i)

\* for (const log of betLogs), from index i on, then the wins.
RECURSIVE ForBets(_, _)
ForBets(r, i) ==
    LET logs == BetLogsIn(r.from, r.to)
    IN  IF i > Len(logs) THEN ForWins(r, 1)
        ELSE IF Invalid(logs[i]) THEN ForBets(Handled(r, "bet", logs[i]), i + 1)
        ELSE StartBet(r, i)

\* The handler of the log at r.idx has returned: the loop goes on.
AfterLog(r) ==
    IF r.phase = "bet"
    THEN ForBets(Handled(r, "bet", BetLogsIn(r.from, r.to)[r.idx]), r.idx + 1)
    ELSE ForWins(Handled(r, "win", WinLogsIn(r.wfrom, r.to)[r.idx]), r.idx + 1)

\* Pass p runs on as r until its next await, or to the end of the callback.
Resume(p, r) ==
    /\ pass' = [pass EXCEPT ![p] =
          IF r.pc = "end" THEN [Idle(r.failed, TRUE) EXCEPT !.handled = r.handled]
          ELSE r]
    /\ lastProcessedBlock' = IF r.pc = "end" THEN r.to ELSE lastProcessedBlock
    /\ doneWindows' = IF r.pc = "end" THEN doneWindows \cup {<<r.from, r.wfrom, r.to>>}
                                      ELSE doneWindows

\* Mutant of Caught: the cursor is assigned also when the callback ends in
\* its catch.
CaughtAdvances(p) ==
    /\ pass' = [pass EXCEPT ![p] = Idle(TRUE, FALSE)]
    /\ lastProcessedBlock' = IF pass[p].to > 0 THEN pass[p].to ELSE lastProcessedBlock
    /\ UNCHANGED doneWindows

\* The catch of the polling callback: the pass ends, the cursor stays.
Caught(p) ==
    /\ pass' = [pass EXCEPT ![p] = Idle(TRUE, FALSE)]
    /\ UNCHANGED <<lastProcessedBlock, doneWindows>>

Fault ==
    /\ faults < MaxFaults
    /\ faults' = faults + 1

\* ------------------------------------------- the subscription listener
\* src/index.js: one onLogs callback for each watchContractEvent.
Subs == {"onBetLogs", "onWinLogs"}

\* The logs delivered to the subscriptions, block by block: two bets of one
\* wallet on one market, then the win of that wallet on that market.
PushChain ==
    << [bets |-> << BetLog("b1", 1, "0xAA", 12500000),
                    BetLog("b2", 1, "0xAA", 2000000) >>,
        wins |-> << >>],
       [bets |-> << >>,
        wins |-> << WinLog("w1", 1, "0xaa", 25000000) >>] >>

\* A callback that is not running; blk is the last block delivered to it,
\* handled lists the logs whose handler has returned.
PushIdle(b, h) ==
    [pc |-> "idle", blk |-> b, idx |-> 0, award |-> NoAward, user |-> NULL,
     handled |-> h]

\* The batch of block b for subscription s.
PushLogs(s, b) == IF s = "onBetLogs" THEN chain[b].bets ELSE chain[b].wins

\* for (const log of logs), from index i on: handleBetPlaced up to the
\* ledger insert of awardPoints, handleWinningsClaimed up to its lookup.
PushFor(s, r, i) ==
    LET logs == PushLogs(s, r.blk)
    IN  IF i > Len(logs) THEN PushIdle(r.blk, r.handled)
        ELSE IF s = "onBetLogs"
        THEN [r EXCEPT !.pc = "ledgerInsert", !.idx = i,
                       !.award = [wallet |-> logs[i].args.user,
                                  points |-> BasePoints(logs[i].args.amount),
                                  source |-> "bet_volume",
                                  metadata |-> [marketId |-> logs[i].args.marketId,
                                                betAmount |-> logs[i].args.amount]]]
        ELSE [r EXCEPT !.pc = "winLookup", !.idx = i, !.award = NoAward]

\* The handler of the log at r.idx has returned: the loop goes on.
PushAfterLog(s, r) ==
    PushFor(s, [r EXCEPT !.handled =
                   Append(@, PushLogs(s, r.blk)[r.idx].transactionHash)], r.idx + 1)

\* .eq wallet_address, market_id, source='bet_volume' .single(): the id of
\* the row when exactly one row matches, 0 (data null) otherwise.
PushBetRecordId(wallet, m) ==
    LET hits == {i \in 1..Len(ledger) :
                    /\ ledger[i].wallet_address = Lower(wallet)
                    /\ ledger[i].market_id = m
                    /\ ledger[i].source = "bet_volume"}
    IN  IF Cardinality(hits) = 1 THEN CHOOSE i \in hits : TRUE ELSE 0

\* ---------------------------------------------------------------- Init
InitListener ==
    /\ push = [s \in Subs |-> PushIdle(0, << >>)]
    /\ lastProcessedBlock = 0
    /\ users = << >>
    /\ ledger = << >>
    /\ pass = [p \in Passes |-> Idle(FALSE, FALSE)]
    /\ faults = 0
    /\ ticks = 0
    /\ doneWindows = {}

Init == chain = Chain /\ InitListener

InitInputs == chain \in InputChains /\ InitListener

InitPush == chain = PushChain /\ InitListener

\* ------------------------------------------------------------- actions
\* setInterval fires: the callback starts and awaits getBlockNumber.
Tick(p) ==
    /\ pass[p].pc = "idle"
    /\ ticks < MaxTicks
    /\ ticks' = ticks + 1
    /\ pass' = [pass EXCEPT ![p] = [Idle(FALSE, FALSE) EXCEPT !.pc = "getBlockNumber"]]
    /\ UNCHANGED <<chain, push, lastProcessedBlock, users, ledger, faults, doneWindows>>

\* getBlockNumber answers head; the callback goes on to the first getLogs.
GetBlockNumber(p, head) ==
    /\ pass[p].pc = "getBlockNumber"
    /\ pass' = [pass EXCEPT ![p] =
          IF head <= lastProcessedBlock THEN Idle(FALSE, FALSE)
          ELSE [@ EXCEPT !.pc = "getBetLogs", !.from = lastProcessedBlock + 1,
                         !.to = head]]
    /\ UNCHANGED <<chain, push, lastProcessedBlock, users, ledger, faults, ticks, doneWindows>>

GetBlockNumberFails(p) ==
    /\ pass[p].pc = "getBlockNumber"
    /\ Fault
    /\ Caught(p)
    /\ UNCHANGED <<chain, push, users, ledger, ticks>>

\* The BetPlaced logs arrive; the second getLogs is called with the cursor
\* as it is now.
GetBetLogs(p) ==
    /\ pass[p].pc = "getBetLogs"
    /\ pass' = [pass EXCEPT ![p] =
          [@ EXCEPT !.pc = "getWinLogs", !.wfrom = lastProcessedBlock + 1]]
    /\ UNCHANGED <<chain, push, lastProcessedBlock, users, ledger, faults, ticks, doneWindows>>

GetBetLogsFails(p) ==
    /\ pass[p].pc = "getBetLogs"
    /\ Fault
    /\ Caught(p)
    /\ UNCHANGED <<chain, push, users, ledger, ticks>>

\* The WinningsClaimed logs arrive; the loops start.
GetWinLogs(p) ==
    /\ pass[p].pc = "getWinLogs"
    /\ Resume(p, ForBets(pass[p], 1))
    /\ UNCHANGED <<chain, push, users, ledger, faults, ticks>>

GetWinLogsFails(p) ==
    /\ pass[p].pc = "getWinLogs"
    /\ Fault
    /\ Caught(p)
    /\ UNCHANGED <<chain, push, users, ledger, ticks>>

\* The cursor moved past toBlock between the two getLogs calls: a node may
\* answer fromBlock > toBlock with no logs (GetWinLogs) or with an error.
GetWinLogsBadRange(p) ==
    /\ pass[p].pc = "getWinLogs"
    /\ pass[p].wfrom > pass[p].to
    /\ Caught(p)
    /\ UNCHANGED <<chain, push, users, ledger, faults, ticks>>

\* ensureUserExists: the select of the users row answers.  A row: the
\* function returns and awardPoints inserts into the ledger.  No row:
\* the insert of a zero row is sent.
EnsureUserSelect(p) ==
    /\ pass[p].pc = "euSelect"
    /\ pass' = [pass EXCEPT ![p] =
          [@ EXCEPT !.pc = IF Lower(pass[p].award.wallet) \in DOMAIN users
                           THEN "ledgerInsert" ELSE "euInsert"]]
    /\ UNCHANGED <<chain, push, lastProcessedBlock, users, ledger, faults, ticks, doneWindows>>

\* The select fails: data is null and its error is not looked at.
EnsureUserSelectFails(p) ==
    /\ pass[p].pc = "euSelect"
    /\ Fault
    /\ pass' = [pass EXCEPT ![p] = [@ EXCEPT !.pc = "euInsert"]]
    /\ UNCHANGED <<chain, push, lastProcessedBlock, users, ledger, ticks, doneWindows>>

\* Mutant of EnsureUserInsert: the new row is created holding the points of
\* the award, which step 3 then adds again.
EnsureUserInsertWithPoints(p) ==
    LET a == Lower(pass[p].award.wallet) IN
    /\ pass[p].pc = "euInsert"
    /\ users' = IF a \in DOMAIN users THEN users
                ELSE [w \in DOMAIN users \cup {a} |->
                         IF w = a THEN pass[p].award.points ELSE users[w]]
    /\ pass' = [pass EXCEPT ![p] = [@ EXCEPT !.pc = "ledgerInsert"]]
    /\ UNCHANGED <<chain, push, lastProcessedBlock, ledger, faults, ticks, doneWindows>>

\* Mutant of EnsureUserInsert: the zero row is upserted over an existing row.
EnsureUserInsertOverwrites(p) ==
    LET a == Lower(pass[p].award.wallet) IN
    /\ pass[p].pc = "euInsert"
    /\ users' = [w \in DOMAIN users \cup {a} |-> IF w = a THEN 0 ELSE users[w]]
    /\ pass' = [pass EXCEPT ![p] = [@ EXCEPT !.pc = "ledgerInsert"]]
    /\ UNCHANGED <<chain, push, lastProcessedBlock, ledger, faults, ticks, doneWindows>>

\* ensureUserExists: the insert answers; a duplicate key (23505) is ignored.
EnsureUserInsert(p) ==
    LET a == Lower(pass[p].award.wallet) IN
    /\ pass[p].pc = "euInsert"
    /\ users' = IF a \in DOMAIN users THEN users
                ELSE [w \in DOMAIN users \cup {a} |-> IF w = a THEN 0 ELSE users[w]]
    /\ pass' = [pass EXCEPT ![p] = [@ EXCEPT !.pc = "ledgerInsert"]]
    /\ UNCHANGED <<chain, push, lastProcessedBlock, ledger, faults, ticks, doneWindows>>

\* The insert fails otherwise: ensureUserExists throws, the catch of
\* awardPoints logs it, the handler returns and the loop goes on.
EnsureUserInsertFails(p) ==
    /\ pass[p].pc = "euInsert"
    /\ Fault
    /\ Resume(p, AfterLog([pass[p] EXCEPT !.failed = TRUE]))
    /\ UNCHANGED <<chain, push, users, ledger, ticks>>

\* awardPoints step 2: the ledger row is inserted; the users row is read.
LedgerInsert(p) ==
    LET w == pass[p].award IN
    /\ pass[p].pc = "ledgerInsert"
    /\ ledger' = Append(ledger, LedgerRow(w.wallet, w.points, w.source, w.metadata))
    /\ pass' = [pass EXCEPT ![p] = [@ EXCEPT !.pc = "userSelect"]]
    /\ UNCHANGED <<chain, push, lastProcessedBlock, users, faults, ticks, doneWindows>>

\* Mutant of LedgerInsertFails: ledgerError is not tested, step 3 follows.
LedgerInsertFailsGoesOn(p) ==
    /\ pass[p].pc = "ledgerInsert"
    /\ Fault
    /\ pass' = [pass EXCEPT ![p] = [@ EXCEPT !.pc = "userSelect", !.failed = TRUE]]
    /\ UNCHANGED <<chain, push, lastProcessedBlock, users, ledger, ticks, doneWindows>>

\* ledgerError: logged, awardPoints returns.
LedgerInsertFails(p) ==
    /\ pass[p].pc = "ledgerInsert"
    /\ Fault
    /\ Resume(p, AfterLog([pass[p] EXCEPT !.failed = TRUE]))
    /\ UNCHANGED <<chain, push, users, ledger, ticks>>

\* awardPoints step 3: total_points is read; the update is sent.
UserSelect(p) ==
    LET a == Lower(pass[p].award.wallet) IN
    /\ pass[p].pc = "userSelect"
    /\ IF a \in DOMAIN users
       THEN /\ pass' = [pass EXCEPT ![p] =
                  [@ EXCEPT !.pc = "userUpdate", !.user = users[a]]]
            /\ UNCHANGED <<lastProcessedBlock, doneWindows>>
       ELSE Resume(p, AfterLog(pass[p]))
    /\ UNCHANGED <<chain, push, users, ledger, faults, ticks>>

\* Mutant of UserSelectFails: the award is rolled back, its ledger row is
\* deleted.
UserSelectFailsRollsBack(p) ==
    LET own == {i \in 1..Len(ledger) :
                   ledger[i].metadata.txHash = pass[p].award.metadata.txHash}
        last == CHOOSE i \in own : \A j \in own : j <= i
    IN
    /\ pass[p].pc = "userSelect"
    /\ Fault
    /\ ledger' = SubSeq(ledger, 1, last - 1) \o SubSeq(ledger, last + 1, Len(ledger))
    /\ Resume(p, AfterLog([pass[p] EXCEPT !.failed = TRUE]))
    /\ UNCHANGED <<chain, push, users, ticks>>

\* The read fails: user is null, the update is skipped.
UserSelectFails(p) ==
    /\ pass[p].pc = "userSelect"
    /\ Fault
    /\ Resume(p, AfterLog([pass[p] EXCEPT !.failed = TRUE]))
    /\ UNCHANGED <<chain, push, users, ledger, ticks>>

\* The update writes user.total_points + points.
UserUpdate(p) ==
    LET a == Lower(pass[p].award.wallet) IN
    /\ pass[p].pc = "userUpdate"
    /\ users' = IF a \in DOMAIN users
                THEN [users EXCEPT ![a] = pass[p].user + pass[p].award.points]
                ELSE users
    /\ Resume(p, AfterLog(pass[p]))
    /\ UNCHANGED <<chain, push, ledger, faults, ticks>>

\* The update fails; its result is not looked at.
UserUpdateFails(p) ==
    /\ pass[p].pc = "userUpdate"
    /\ Fault
    /\ Resume(p, AfterLog([pass[p] EXCEPT !.failed = TRUE]))
    /\ UNCHANGED <<chain, push, users, ledger, ticks>>

\* handleWinningsClaimed: the lookup of the bet answers.
WinLookup(p) ==
    LET log == WinLogsIn(pass[p].wfrom, pass[p].to)[pass[p].idx]
        id == BetRecordId(log.args.user, log.args.marketId)
        found == /\ id > 0
                 /\ "betAmount" \in DOMAIN ledger[id].metadata
                 /\ ledger[id].metadata.betAmount # 0
    IN
    /\ pass[p].pc = "winLookup"
    /\ IF found
       THEN /\ pass' = [pass EXCEPT ![p] =
                  [@ EXCEPT !.pc = "euSelect",
                            !.award = [wallet |-> log.args.user,
                                       points |-> WinBonus(ledger[id].metadata.betAmount),
                                       source |-> "win_bonus",
                                       metadata |-> [marketId |-> log.args.marketId,
                                                     payout |-> log.args.amount,
                                                     txHash |-> log.transactionHash]]]]
            /\ UNCHANGED <<lastProcessedBlock, doneWindows>>
       ELSE Resume(p, AfterLog(pass[p]))
    /\ UNCHANGED <<chain, push, users, ledger, faults, ticks>>

\* The lookup fails: betRecord is null, nothing is awarded.
WinLookupFails(p) ==
    /\ pass[p].pc = "winLookup"
    /\ Fault
    /\ Resume(p, AfterLog([pass[p] EXCEPT !.failed = TRUE]))
    /\ UNCHANGED <<chain, push, users, ledger, ticks>>

\* What one callback does alone.
Step(p) ==
    \/ Tick(p)
    \/ \E head \in Heads : GetBlockNumber(p, head)
    \/ GetBlockNumberFails(p)
    \/ GetBetLogs(p)
    \/ GetBetLogsFails(p)
    \/ GetWinLogs(p)
    \/ GetWinLogsFails(p)
    \/ EnsureUserSelect(p)
    \/ EnsureUserSelectFails(p)
    \/ EnsureUserInsert(p)
    \/ EnsureUserInsertFails(p)
    \/ LedgerInsert(p)
    \/ LedgerInsertFails(p)
    \/ UserSelect(p)
    \/ UserSelectFails(p)
    \/ UserUpdate(p)
    \/ UserUpdateFails(p)
    \/ WinLookup(p)
    \/ WinLookupFails(p)

Next == \E p \in Passes : Step(p) \/ GetWinLogsBadRange(p)

Spec == Init /\ [][Next]_vars

\* One callback at a time, over every input chain.
NextInputs == Step("t1")

InputSpec == InitInputs /\ [][NextInputs]_vars

\* SIGINT or SIGTERM: the handler calls process.exit(0); every callback
\* stops at the await it is at, a timer never fires again.
Shutdown ==
    /\ \E p \in Passes : pass[p].pc # "exited"
    /\ pass' = [p \in Passes |-> [pass[p] EXCEPT !.pc = "exited"]]
    /\ UNCHANGED <<chain, push, lastProcessedBlock, users, ledger, faults, ticks, doneWindows>>

\* The listener with the signal handlers installed.
NextSignal == Next \/ Shutdown

SignalSpec == Init /\ [][NextSignal]_vars

\* ---------------------------------- actions of the subscription listener
\* The subscription delivers the logs of its next block (an empty batch is
\* not delivered): the callback starts its loop.  Batches of one
\* subscription are taken one after the other; nothing orders the callbacks
\* of the two subscriptions.
OnLogs(s) ==
    /\ push[s].pc = "idle"
    /\ push[s].blk < Len(chain)
    /\ push' = [push EXCEPT ![s] = PushFor(s, [@ EXCEPT !.blk = @ + 1], 1)]
    /\ UNCHANGED <<chain, lastProcessedBlock, users, ledger, pass, faults, ticks, doneWindows>>

\* awardPoints step 1: the ledger row is inserted; the users row is read.
PushLedgerInsert(s) ==
    LET w == push[s].award IN
    /\ push[s].pc = "ledgerInsert"
    /\ ledger' = Append(ledger, LedgerRow(w.wallet, w.points, w.source, w.metadata))
    /\ push' = [push EXCEPT ![s] = [@ EXCEPT !.pc = "userSelect"]]
    /\ UNCHANGED <<chain, lastProcessedBlock, users, pass, faults, ticks, doneWindows>>

\* throw ledgerError: caught and logged by awardPoints, the handler returns.
PushLedgerInsertFails(s) ==
    /\ push[s].pc = "ledgerInsert"
    /\ Fault
    /\ push' = [push EXCEPT ![s] = PushAfterLog(s, @)]
    /\ UNCHANGED <<chain, lastProcessedBlock, users, ledger, pass, ticks, doneWindows>>

\* awardPoints step 2: total_points is read; a row: the update is sent, no
\* row: the insert of a row holding the points is sent.
PushUserSelect(s) ==
    LET a == Lower(push[s].award.wallet) IN
    /\ push[s].pc = "userSelect"
    /\ push' = [push EXCEPT ![s] =
          IF a \in DOMAIN users THEN [@ EXCEPT !.pc = "userUpdate", !.user = users[a]]
          ELSE [@ EXCEPT !.pc = "userInsert", !.user = NULL]]
    /\ UNCHANGED <<chain, lastProcessedBlock, users, ledger, pass, faults, ticks, doneWindows>>

\* The read fails: user is null, the insert is sent.
PushUserSelectFails(s) ==
    /\ push[s].pc = "userSelect"
    /\ Fault
    /\ push' = [push EXCEPT ![s] = [@ EXCEPT !.pc = "userInsert", !.user = NULL]]
    /\ UNCHANGED <<chain, lastProcessedBlock, users, ledger, pass, ticks, doneWindows>>

\* The update writes user.total_points + points.
PushUserUpdate(s) ==
    LET a == Lower(push[s].award.wallet) IN
    /\ push[s].pc = "userUpdate"
    /\ users' = [users EXCEPT ![a] = push[s].user + push[s].award.points]
    /\ push' = [push EXCEPT ![s] = PushAfterLog(s, @)]
    /\ UNCHANGED <<chain, lastProcessedBlock, ledger, pass, faults, ticks, doneWindows>>

\* The update fails; its result is not looked at.
PushUserUpdateFails(s) ==
    /\ push[s].pc = "userUpdate"
    /\ Fault
    /\ push' = [push EXCEPT ![s] = PushAfterLog(s, @)]
    /\ UNCHANGED <<chain, lastProcessedBlock, users, ledger, pass, ticks, doneWindows>>

\* The insert of the new users row answers; its result is not looked at, a
\* duplicate key leaves the row that is there.
PushUserInsert(s) ==
    LET a == Lower(push[s].award.wallet) IN
    /\ push[s].pc = "userInsert"
    /\ users' = IF a \in DOMAIN users THEN users
                ELSE [w \in DOMAIN users \cup {a} |->
                         IF w = a THEN push[s].award.points ELSE users[w]]
    /\ push' = [push EXCEPT ![s] = PushAfterLog(s, @)]
    /\ UNCHANGED <<chain, lastProcessedBlock, ledger, pass, faults, ticks, doneWindows>>

PushUserInsertFails(s) ==
    /\ push[s].pc = "userInsert"
    /\ Fault
    /\ push' = [push EXCEPT ![s] = PushAfterLog(s, @)]
    /\ UNCHANGED <<chain, lastProcessedBlock, users, ledger, pass, ticks, doneWindows>>

\* handleWinningsClaimed: the lookup of the bet answers.
PushWinLookup(s) ==
    LET log == PushLogs(s, push[s].blk)[push[s].idx]
        id == PushBetRecordId(log.args.user, log.args.marketId)
    IN
    /\ push[s].pc = "winLookup"
    /\ push' = [push EXCEPT ![s] =
          IF id > 0 /\ ledger[id].metadata.betAmount # 0
          THEN [@ EXCEPT !.pc = "ledgerInsert",
                         !.award = [wallet |-> log.args.user,
                                    points |-> WinBonus(ledger[id].metadata.betAmount),
                                    source |-> "win_bonus",
                                    metadata |-> [marketId |-> log.args.marketId,
                                                  payout |-> log.args.amount]]]
          ELSE PushAfterLog(s, @)]
    /\ UNCHANGED <<chain, lastProcessedBlock, users, ledger, pass, faults, ticks, doneWindows>>

\* The lookup fails: betRecord is null, nothing is awarded.
PushWinLookupFails(s) ==
    /\ push[s].pc = "winLookup"
    /\ Fault
    /\ push' = [push EXCEPT ![s] = PushAfterLog(s, @)]
    /\ UNCHANGED <<chain, lastProcessedBlock, users, ledger, pass, ticks, doneWindows>>

NextPush ==
    \E s \in Subs :
        \/ OnLogs(s)
        \/ PushLedgerInsert(s)
        \/ PushLedgerInsertFails(s)
        \/ PushUserSelect(s)
        \/ PushUserSelectFails(s)
        \/ PushUserUpdate(s)
        \/ PushUserUpdateFails(s)
        \/ PushUserInsert(s)
        \/ PushUserInsertFails(s)
        \/ PushWinLookup(s)
        \/ PushWinLookupFails(s)

PushSpec == InitPush /\ [][NextPush]_vars

\* ============================================================== claims
\* No callback is running.
Quiescent == \A p \in Passes : pass[p].pc = "idle"

InFlight == {p \in Passes : pass[p].pc # "idle"}

\* C1: whenever the ticks and awards so far have all ended, every wallet's
\* users.total_points equals the sum of points_earned of its ledger rows
\* (no users row counting as 0).
C1_TotalEqualsLedgerSum ==
    Quiescent => \A w \in LowerWallets : Total(w) = LedgerSum(w)

\* C2: a callback that processes a window another callback has already run
\* to its end (the same blocks for the bets and for the wins) changes no
\* wallet's total_points, all store calls succeeding.
C2_ReplayAddsNoPoints ==
    [][\A p \in Passes :
          ( /\ faults = 0
            /\ <<pass[p].from, pass[p].wfrom, pass[p].to>> \in doneWindows
            /\ pass'[p] # pass[p] )
          => \A w \in LowerWallets : Total(w)' = Total(w)]_vars

\* C3: at most one callback is between its getBlockNumber call and its end.
C3_OnePassInFlight == Cardinality(InFlight) <= 1

\* C4: a callback in which a call failed (getBlockNumber, a getLogs, or a
\* store call made for a log) has not assigned lastProcessedBlock.
C4_FailedTickKeepsCursor ==
    \A p \in Passes : (pass[p].pc = "idle" /\ pass[p].failed) => ~pass[p].advanced

\* C5: every assignment to lastProcessedBlock writes a value greater than or
\* equal to the one it held.
C5_CursorNeverDecreases ==
    [][lastProcessedBlock' >= lastProcessedBlock]_vars

\* The handler of the log with this hash has returned in the running pass r.
HasHandled(r, kind, tx) ==
    \E i \in 1..Len(r.handled) : r.handled[i] = [kind |-> kind, tx |-> tx]

\* The ledger rows written for the log with this hash.
RowsOf(tx, source) ==
    {i \in 1..Len(ledger) :
        ledger[i].metadata.txHash = tx /\ ledger[i].source = source}

RowsOfWallet(w) == {i \in 1..Len(ledger) : ledger[i].wallet_address = w}

\* C6: in a pass, once a WinningsClaimed handler has started, the handler of
\* every BetPlaced log of the window has returned, and (no call of the pass
\* having failed) each valid bet has its ledger row and its users row; no
\* bet handler returns after a win handler.  So the 12.50 USDC bet b1 and
\* its win w1 of block 1 give the rows 125 and 625, and total_points 750
\* once these two rows are all the wallet has.
C6_BetsBeforeWins ==
    /\ \A p \in Passes :
         LET r == pass[p]
             bets == BetLogsIn(r.from, r.to)
         IN  /\ ( /\ r.pc # "idle"
                   /\ \/ r.phase = "win"
                      \/ \E i \in 1..Len(r.handled) : r.handled[i].kind = "win" )
                  => \A k \in 1..Len(bets) :
                        /\ HasHandled(r, "bet", bets[k].transactionHash)
                        /\ (~r.failed /\ ~Invalid(bets[k]))
                             => /\ RowsOf(bets[k].transactionHash, "bet_volume") # {}
                                /\ Lower(bets[k].args.user) \in DOMAIN users
             /\ \A i, j \in 1..Len(r.handled) :
                  i < j => ~(r.handled[i].kind = "win" /\ r.handled[j].kind = "bet")
             /\ (HasHandled(r, "win", "w1") /\ ~r.failed)
                  => /\ \E i \in RowsOf("b1", "bet_volume") : ledger[i].points_earned = 125
                     /\ \E i \in RowsOf("w1", "win_bonus") : ledger[i].points_earned = 625
    /\ (Quiescent /\ faults = 0 /\ Cardinality(RowsOfWallet("0xaa")) = 2)
         => /\ \E i \in RowsOf("b1", "bet_volume") : ledger[i].points_earned = 125
            /\ \E i \in RowsOf("w1", "win_bonus") : ledger[i].points_earned = 625
            /\ Total("0xaa") = 750

\* A pass has processed b1 and then w1, and the wallet holds 750 points.
C6_Witness ==
    /\ Quiescent /\ faults = 0
    /\ Cardinality(RowsOfWallet("0xaa")) = 2
    /\ RowsOf("w1", "win_bonus") # {}
    /\ Total("0xaa") = 750

\* ------------------------------------------------- claims on the inputs
\* The bet and the win of an input chain.
TheBet == BetLogsIn(1, Len(chain))[1]
TheWin == WinLogsIn(1, Len(chain))[1]

\* floor(a * 10) and floor(a * 50) of the decimal a = raw / 10^6.
Floor10(raw) == (raw * 10) \div 1000000
Floor50(raw) == (raw * 50) \div 1000000

\* The bet_volume rows recorded for a bet of this wallet on this market.
BetRowsFor(user, m) ==
    {i \in 1..Len(ledger) :
        /\ ledger[i].source = "bet_volume"
        /\ ledger[i].wallet_address = Lower(user)
        /\ ledger[i].metadata.marketId = m}

\* C7: all store calls succeeding, once the handler of a win with a non-zero
\* payout has returned and a bet_volume row of a bet of amount a on the same
\* wallet and market was there, exactly one win_bonus row of floor(a * 50)
\* points has been appended for the win.
C7_WinBonusFromBet ==
    \A p \in Passes :
        ( /\ faults = 0
          /\ HasHandled(pass[p], "win", TheWin.transactionHash)
          /\ TheWin.args.amount # 0
          /\ BetRowsFor(TheWin.args.user, TheWin.args.marketId) # {} )
        => /\ Cardinality(RowsOf(TheWin.transactionHash, "win_bonus")) = 1
           /\ \A i \in RowsOf(TheWin.transactionHash, "win_bonus") :
                \E b \in BetRowsFor(TheWin.args.user, TheWin.args.marketId) :
                    ledger[i].points_earned = Floor50(ledger[b].metadata.betAmount)

\* The win of the chain is in block 1 and the bet in block 2.
WinBlockBeforeBet ==
    /\ Len(chain) = 2
    /\ chain[1].wins # << >>
    /\ chain[2].bets # << >>

\* The callback ended in its catch.
Aborted(r) == r.pc = "idle" /\ r.failed /\ ~r.advanced

\* C8: when the lookup of a win answers and the ledger holds no bet_volume
\* row for the win's wallet and market, the handler returns in that step:
\* no ledger row is added, no users row changes, the callback is not
\* aborted.  And when the win's block has been scanned before the block of
\* its bet, no win_bonus row is ever written for it, also after the bet is
\* ledgered.
C8_WinWithoutBet ==
    /\ [](( WinBlockBeforeBet /\ <<1, 1, 1>> \in doneWindows )
            => RowsOf(TheWin.transactionHash, "win_bonus") = {})
    /\ [][\A p \in Passes :
            ( /\ pass[p].pc = "winLookup"
              /\ pass'[p] # pass[p]
              /\ BetRowsFor(TheWin.args.user, TheWin.args.marketId) = {} )
            => /\ ledger' = ledger
               /\ users' = users
               /\ ~Aborted(pass'[p])
               /\ HasHandled(pass'[p], "win", TheWin.transactionHash)]_vars

\* The win was looked up before its bet was ledgered and got nothing; the
\* bet of the same wallet and market is in the ledger now.
C8_Witness ==
    /\ WinBlockBeforeBet /\ <<1, 1, 1>> \in doneWindows
    /\ TheWin.args.amount # 0
    /\ TheWin.args.marketId = 1
    /\ BetRowsFor(TheWin.args.user, TheWin.args.marketId) # {}
    /\ RowsOf(TheWin.transactionHash, "win_bonus") = {}

\* C9: all store calls succeeding, once the handler of a BetPlaced log with
\* args, user and a non-zero amount has returned, the ledger holds exactly
\* one row for the log: bet_volume, for the lowercased wallet, with
\* points_earned = floor(a * 10) and metadata.betAmount = a.
C9_BetPoints ==
    \A p \in Passes :
        ( /\ faults = 0
          /\ HasHandled(pass[p], "bet", TheBet.transactionHash)
          /\ ~Invalid(TheBet) )
        => /\ Cardinality({i \in 1..Len(ledger) :
                              ledger[i].metadata.txHash = TheBet.transactionHash}) = 1
           /\ \A i \in RowsOf(TheBet.transactionHash, "bet_volume") :
                /\ ledger[i].wallet_address \in LowerWallets
                /\ ledger[i].wallet_address = Lower(TheBet.args.user)
                /\ ledger[i].points_earned = Floor10(TheBet.args.amount)
                /\ ledger[i].metadata.betAmount = TheBet.args.amount
           /\ RowsOf(TheBet.transactionHash, "bet_volume") # {}

\* A 0.94 USDC bet has been awarded its 9 points.
C9_Witness ==
    /\ faults = 0
    /\ TheBet.args.amount = 940000
    /\ \E p \in Passes : HasHandled(pass[p], "bet", TheBet.transactionHash)
    /\ \E i \in RowsOf(TheBet.transactionHash, "bet_volume") :
            ledger[i].points_earned = 9 /\ ledger[i].wallet_address = "0xbb"

\* C10: for a win whose payout is 0, no lookup is sent and no award is
\* started, no win_bonus row is ever written, every total_points is 0 or
\* the points of the bet, and the callback that handled it is not aborted.
C10_ZeroPayout ==
    TheWin.args.amount = 0 =>
        /\ RowsOf(TheWin.transactionHash, "win_bonus") = {}
        /\ \A p \in Passes :
             /\ pass[p].pc # "winLookup"
             /\ pass[p].award.source # "win_bonus"
             /\ HasHandled(pass[p], "win", TheWin.transactionHash) => ~Aborted(pass[p])
        /\ \A w \in LowerWallets :
             \/ Total(w) = 0
             \/ w = Lower(TheBet.args.user) /\ Total(w) = Floor10(TheBet.args.amount)

\* A zero payout has been handled while the bet of its wallet and market
\* is in the ledger.
C10_Witness ==
    /\ TheWin.args.amount = 0
    /\ \E p \in Passes : HasHandled(pass[p], "win", TheWin.transactionHash)
    /\ BetRowsFor(TheWin.args.user, TheWin.args.marketId) # {}
    /\ TheWin.args.marketId = 1
    /\ Total(Lower(TheWin.args.user)) > 0

\* ------------------------------------------- claims on the failure paths
\* A field the handlers test for is missing from the log.
MissingField(log) ==
    \/ "args" \notin DOMAIN log
    \/ "user" \notin DOMAIN log.args
    \/ "amount" \notin DOMAIN log.args

\* The logs of the chain.
AllLogs ==
    {BetLogsIn(1, Len(chain))[i] : i \in 1..Len(BetLogsIn(1, Len(chain)))}
      \cup {WinLogsIn(1, Len(chain))[i] : i \in 1..Len(WinLogsIn(1, Len(chain)))}

\* The hashes of the logs of the chain that miss a field.
MalformedTxs == {l.transactionHash : l \in {x \in AllLogs : MissingField(x)}}

\* The handler of every log of the window of r has returned.
WindowHandled(r, h) ==
    /\ \A k \in 1..Len(BetLogsIn(r.from, r.to)) :
          HasHandled(h, "bet", BetLogsIn(r.from, r.to)[k].transactionHash)
    /\ \A k \in 1..Len(WinLogsIn(r.wfrom, r.to)) :
          HasHandled(h, "win", WinLogsIn(r.wfrom, r.to)[k].transactionHash)

\* C11: a log that misses its args, its user or its amount never gets a
\* ledger row and no award (so no write to users) is ever started for it;
\* and the callback that skipped it handles every other log of its window
\* and ends by assigning the window's end to the cursor, not in its catch.
C11_MalformedSkipped ==
    /\ [](/\ \A i \in 1..Len(ledger) : ledger[i].metadata.txHash \notin MalformedTxs
          /\ \A p \in Passes :
               /\ pass[p].pc \in {"euSelect", "euInsert", "ledgerInsert", "userSelect",
                                  "userUpdate"}
                    => pass[p].award.metadata.txHash \notin MalformedTxs
               /\ pass[p].pc = "winLookup"
                    => ~MissingField(WinLogsIn(pass[p].wfrom, pass[p].to)[pass[p].idx])
               /\ ( /\ pass[p].pc = "idle"
                    /\ \E i \in 1..Len(pass[p].handled) : pass[p].handled[i].tx \in MalformedTxs )
                    => pass[p].advanced)
    /\ [][\A p \in Passes :
            ( /\ pass[p].pc \notin {"idle", "exited"}
              /\ pass'[p].pc = "idle"
              /\ \E i \in 1..Len(pass'[p].handled) : pass'[p].handled[i].tx \in MalformedTxs )
            => /\ WindowHandled(pass[p], pass'[p])
               /\ lastProcessedBlock' = pass[p].to
               /\ <<pass[p].from, pass[p].wfrom, pass[p].to>> \in doneWindows']_vars

\* A callback has skipped the bet without a user and the win without args,
\* awarded the bet and the win around them, and moved the cursor.
C11_Witness ==
    \E p \in Passes :
        /\ pass[p].pc = "idle" /\ pass[p].advanced /\ ~pass[p].failed
        /\ HasHandled(pass[p], "bet", "bx")
        /\ HasHandled(pass[p], "win", "wx")
        /\ HasHandled(pass[p], "win", "w3")
        /\ RowsOf("b1", "bet_volume") # {}
        /\ RowsOf("w1", "win_bonus") # {}
        /\ lastProcessedBlock >= 1

\* C12: whenever the cursor has reached block b, every BetPlaced log of b
\* that passes the handler's test has a bet_volume row in the ledger: a
\* failed store call of its award kept the cursor before b.
C12_FailedAwardIsRetried ==
    \A b \in 1..Len(chain) :
        lastProcessedBlock >= b
        => \A k \in 1..Len(chain[b].bets) :
              ~Invalid(chain[b].bets[k])
              => RowsOf(chain[b].bets[k].transactionHash, "bet_volume") # {}

\* C13: a step of ensureUserExists (its select or its insert answering, in
\* any interleaving with the other callback) leaves every existing users
\* row as it is, adds at most the row of its own lowercased wallet, with
\* total_points 0; when the function returns the row exists; and an insert
\* that meets an existing row (duplicate key) returns without throwing.
C13_EnsureUserIdempotent ==
    [][\A p \in Passes :
          (pass[p].pc \in {"euSelect", "euInsert"} /\ pass'[p] # pass[p])
          => LET a == Lower(pass[p].award.wallet)
             IN  /\ \A w \in DOMAIN users : w \in DOMAIN users' /\ users'[w] = users[w]
                 /\ DOMAIN users' \subseteq DOMAIN users \cup {a}
                 /\ (a \notin DOMAIN users /\ a \in DOMAIN users') => users'[a] = 0
                 /\ pass'[p].pc = "ledgerInsert" => a \in DOMAIN users'
                 /\ (pass[p].pc = "euInsert" /\ a \in DOMAIN users /\ faults' = faults)
                      => /\ pass'[p].pc = "ledgerInsert"
                         /\ pass'[p].failed = pass[p].failed
                         /\ pass'[p].handled = pass[p].handled]_vars

\* The race between check and create: a callback has seen no row and has
\* sent its insert; the other callback has since created the row and
\* credited the 125 points of b1 to it.
C13_Witness ==
    \E p \in Passes :
        /\ faults = 0
        /\ pass[p].pc = "euInsert"
        /\ Lower(pass[p].award.wallet) \in DOMAIN users
        /\ users[Lower(pass[p].award.wallet)] = 125

\* The process has exited.
Exited == \A p \in Passes : pass[p].pc = "exited"

\* C14: once the process has exited on a signal no tick starts, and every
\* callback that was in the loops over the logs of its window when the
\* signal came has handled all the logs of that window.
C14_ShutdownDrainsWindow ==
    /\ [](Exited => \A p \in Passes :
                        pass[p].phase # "" => WindowHandled(pass[p], pass[p]))
    /\ [][Exited => ticks' = ticks]_vars

\* C15: every step of the program leaves the rows of points_ledger as they
\* are, in their places; it may only append.
C15_LedgerAppendOnly ==
    [][/\ Len(ledger') >= Len(ledger)
       /\ \A i \in 1..Len(ledger) : ledger'[i] = ledger[i]]_vars

\* The ledger has been through a replay of a window (two rows of one event),
\* a win lookup that ended in an award, and a failed call.
C15_Witness ==
    /\ faults = 1
    /\ \E i, j \in 1..Len(ledger) :
          i < j /\ ledger[i].metadata.txHash = ledger[j].metadata.txHash
    /\ \E i \in 1..Len(ledger) : ledger[i].source = "win_bonus"

\* C18: in every state, between the two writes of an award, after a failed
\* call and after a lost update included, every wallet's total_points is at
\* most the sum of points_earned of its ledger rows.
C18_TotalAtMostLedgerSum ==
    \A w \in LowerWallets \cup DOMAIN users : Total(w) <= LedgerSum(w)

\* Two overlapping callbacks have ended with no failed call and an update
\* of total_points was lost: the wallet holds points, fewer than its rows.
C18_Witness ==
    /\ Quiescent
    /\ faults = 0
    /\ Total("0xaa") > 0
    /\ Total("0xaa") < LedgerSum("0xaa")

\* C19: every block from the first after the start block up to the cursor
\* lies in a window, for the bets and for the wins, that a callback has run
\* to its end; a window is run to its end only with the handler of each of
\* its logs returned; a callback that goes on to fetch starts its window at
\* the block after the cursor; and a tick that reads a head at or below the
\* cursor ends there, leaving cursor, store and windows as they are.
C19_NoBlockSkipped ==
    /\ [](\A b \in 1..lastProcessedBlock :
             \E w \in doneWindows : w[1] <= b /\ w[2] <= b /\ b <= w[3])
    /\ [][\A p \in Passes :
            /\ doneWindows' # doneWindows
                 => \E q \in Passes :
                       /\ pass[q].pc \notin {"idle", "exited"} /\ pass'[q].pc = "idle"
                       /\ doneWindows' = doneWindows \cup {<<pass[q].from, pass[q].wfrom, pass[q].to>>}
                       /\ WindowHandled(pass[q], pass'[q])
            /\ (pass[p].pc = "getBlockNumber" /\ pass'[p].pc = "getBetLogs")
                 => /\ pass'[p].from = lastProcessedBlock + 1
                    /\ pass'[p].to > lastProcessedBlock
            /\ (pass[p].pc = "getBlockNumber" /\ pass'[p].pc = "idle")
                 => UNCHANGED <<lastProcessedBlock, users, ledger, doneWindows>>]_vars

\* The cursor is at block 2; block 1 was run by one callback and block 2 by
\* an overlapping one that fetched its bets from block 1 and its wins from
\* block 2.
C19_Witness ==
    /\ lastProcessedBlock = 2
    /\ doneWindows = {<<1, 1, 1>>, <<1, 2, 2>>}
    /\ Quiescent

\* C20: the step in which the points_ledger insert of an award fails adds no
\* ledger row and changes no users row, and the handler of the log returns
\* in that step (no read or update of total_points follows for the award);
\* the callback goes on and does not end in its catch.
C20_LedgerFailureStopsAward ==
    [][\A p \in Passes :
          ( /\ pass[p].pc = "ledgerInsert"
            /\ pass'[p] # pass[p]
            /\ faults' = faults + 1 )
          => /\ ledger' = ledger
             /\ users' = users
             /\ Len(pass'[p].handled) > Len(pass[p].handled)
             /\ pass'[p].handled[Len(pass[p].handled) + 1].tx
                  = pass[p].award.metadata.txHash
             /\ ~Aborted(pass'[p])
             /\ ~(pass'[p].pc \in {"userSelect", "userUpdate"}
                    /\ pass'[p].award = pass[p].award)]_vars

\* The ledger insert of the bet's award has failed: the handler of the bet
\* has returned, the ledger has no row for it, and the users row that
\* ensureUserExists created holds 0 points.
C20_Witness ==
    /\ faults = 1
    /\ ~Invalid(TheBet)
    /\ BasePoints(TheBet.args.amount) > 0
    /\ \E p \in Passes : HasHandled(pass[p], "bet", TheBet.transactionHash) /\ pass[p].failed
    /\ \A i \in 1..Len(ledger) : ledger[i].metadata.txHash # TheBet.transactionHash
    /\ Lower(TheBet.args.user) \in DOMAIN users
    /\ users[Lower(TheBet.args.user)] = 0

\* -------------------------------- claims on the subscription listener
PushInFlight == {s \in Subs : push[s].pc # "idle"}

\* C16: at most one handler invocation of the subscription listener is in
\* flight (a callback that is not idle is inside a handler), so no two of
\* them are between the read and the write of total_points of one wallet.
C16_PushSerialized ==
    /\ Cardinality(PushInFlight) <= 1
    /\ \A s, t \in Subs :
          ( /\ s # t
            /\ push[s].pc \in {"userUpdate", "userInsert"}
            /\ push[t].pc \in {"userUpdate", "userInsert"} )
          => Lower(push[s].award.wallet) # Lower(push[t].award.wallet)

\* The bet_volume row with the greatest id among those of the wallet and
\* market.
LatestBetRow(user, m) ==
    CHOOSE i \in BetRowsFor(user, m) : \A j \in BetRowsFor(user, m) : j <= i

\* C17: when the lookup of a win answers and the ledger holds several
\* bet_volume rows of the win's wallet and market, the handler starts the
\* award of a win_bonus of floor(b * 50) points, b the betAmount of the row
\* with the greatest id.
C17_BonusFromLatestBet ==
    [][\A s \in Subs :
          LET log == PushLogs(s, push[s].blk)[push[s].idx]
          IN  ( /\ push[s].pc = "winLookup"
                /\ push'[s] # push[s]
                /\ faults' = faults
                /\ Cardinality(BetRowsFor(log.args.user, log.args.marketId)) >= 2 )
              => /\ push'[s].pc = "ledgerInsert"
                 /\ push'[s].award.source = "win_bonus"
                 /\ push'[s].award.points =
                      Floor50(ledger[LatestBetRow(log.args.user, log.args.marketId)]
                                 .metadata.betAmount)]_vars

====
